---- MODULE Spec2Model ----
(***************************************************************************)
(* A model of the rigctld crate: the protocol client `Rig` (src/rig.rs),   *)
(* the earlier client `Rigctld` kept in src/lib.rs, and the process        *)
(* supervisor `Daemon` / `Rigctld` (src/daemon.rs).  Spec, LibSpec and      *)
(* DaemonSpec let the transport and the operating system answer in every   *)
(* way; FaithfulSpec runs the client against a daemon that follows the     *)
(* wire protocol.                                                          *)
(*                                                                         *)
(* Text is modelled character by character: a string is a sequence of      *)
(* one-character strings.  A number is modelled by its canonical decimal   *)
(* numeral (a sequence of ASCII digits without leading zeros), so that the *)
(* full u64 range and its overflow are represented exactly.                *)
(*                                                                         *)
(* Option<T> is modelled as a sequence: <<>> is None, <<x>> is Some(x).    *)
(***************************************************************************)
EXTENDS Integers, Sequences, FiniteSets, TLC

VARIABLES
    reader,      \* Rig.reader / Rigctld.reader: <<>> or <<connection id>>
    writer,      \* Rig.writer / Rigctld.writer: <<>> or <<connection id>>
    timeout,     \* Rig.timeout in milliseconds
    conns,       \* number of TCP connections established so far (ids 1..conns)
    peerClosed,  \* the peer has closed the stream of the current connection
    panicked,    \* a typed operation panicked (unwrap on None / on Err)
    last,        \* the last client call: operation, inputs, I/O and result
    rigctlds,    \* daemon.rs: the Rigctld handles returned by Daemon::spawn
    procs,       \* the OS processes started so far
    dlast,       \* the last supervisor call or process event, and its result
    rig,         \* the radio of a daemon that follows the wire protocol
    pending,     \* response lines that daemon has sent and the client not read
    prev         \* the client call before the last one, and pending after it

vars == <<reader, writer, timeout, conns, peerClosed, panicked, last,
          rigctlds, procs, dlast, rig, pending, prev>>

clientVars == <<reader, writer, timeout, conns, peerClosed, panicked, last>>
daemonVars == <<rigctlds, procs, dlast>>
rigVars == <<rig, pending, prev>>

----------------------------------------------------------------------------
(* Bounds of the model.                                                    *)

MaxConn == 2        \* successful TCP connects explored
MaxDigits == 2      \* length of the generated digit strings in responses
MaxSpawn == 2       \* processes started by the supervisor
MaxPending == 1     \* response lines waiting unread on a connection

----------------------------------------------------------------------------
(* Results: Result<T, RigError> plus the panic a failed unwrap() raises.   *)

Ok(v) == [k |-> "Ok", v |-> v]
Err(e) == [k |-> "Err", v |-> <<e>>]
Panic == [k |-> "Panic", v |-> <<>>]
Unit == <<>>

IsOk(r) == r.k = "Ok"
IsErr(r, e) == r.k = "Err" /\ r.v = <<e>>
IsPanic(r) == r.k = "Panic"

None == <<>>
Some(x) == <<x>>

----------------------------------------------------------------------------
(* Characters and literals of the wire protocol.                           *)

AsciiDigits == {"0", "1", "2", "3", "4", "5", "6", "7", "8", "9"}

\* A decimal digit outside ASCII (ARABIC-INDIC DIGIT THREE, U+0663).  The
\* regex crate's \d is Unicode-aware and matches it; str::parse does not.
UniDigit == "u0663"

UpperChars == {"A", "B", "C", "D", "E", "F", "G", "H", "I", "J", "K", "L", "M",
               "N", "O", "P", "Q", "R", "S", "T", "U", "V", "W", "X", "Y", "Z"}

\* Characters str::trim_end removes (White_Space).
WhiteSpace == {" ", "\t", "\r", "\n"}

PreGetFreq == <<"g", "e", "t", "_", "f", "r", "e", "q", ":", ";", "F", "r", "e", "q", "u", "e", "n", "c", "y", ":", " ">>
PreSetFreq == <<"s", "e", "t", "_", "f", "r", "e", "q", ":", " ">>
PreGetMode == <<"g", "e", "t", "_", "m", "o", "d", "e", ":", ";", "M", "o", "d", "e", ":", " ">>
MidGetMode == <<";", "P", "a", "s", "s", "b", "a", "n", "d", ":", " ">>
PreSetMode == <<"s", "e", "t", "_", "m", "o", "d", "e", ":", " ">>
PreGetPowerstat == <<"g", "e", "t", "_", "p", "o", "w", "e", "r", "s", "t", "a", "t", ":", ";", "P", "o", "w", "e", "r", " ", "S", "t", "a", "t", "u", "s", ":", " ">>
PreSetPowerstat == <<"s", "e", "t", "_", "p", "o", "w", "e", "r", "s", "t", "a", "t", ":", " ">>
Rprt0 == <<";", "R", "P", "R", "T", " ", "0">>
Space == <<" ">>

CmdGetFreqPlain == <<"\\", "g", "e", "t", "_", "f", "r", "e", "q">>     \* without the semicolon
CmdGetFreq == <<";", "\\", "g", "e", "t", "_", "f", "r", "e", "q">>
CmdSetFreq == <<";", "\\", "s", "e", "t", "_", "f", "r", "e", "q", " ">>
CmdGetModePlain == <<"\\", "g", "e", "t", "_", "m", "o", "d", "e">>     \* without the semicolon
CmdGetMode == <<";", "\\", "g", "e", "t", "_", "m", "o", "d", "e">>
CmdSetMode == <<";", "\\", "s", "e", "t", "_", "m", "o", "d", "e", " ">>
CmdGetPowerstat == <<";", "\\", "g", "e", "t", "_", "p", "o", "w", "e", "r", "s", "t", "a", "t">>
CmdSetPowerstat == <<";", "\\", "s", "e", "t", "_", "p", "o", "w", "e", "r", "s", "t", "a", "t", " ">>

U64Max == <<"1", "8", "4", "4", "6", "7", "4", "4", "0", "7", "3", "7", "0", "9", "5", "5", "1", "6", "1", "5">>
U16Max == <<"6", "5", "5", "3", "5">>

----------------------------------------------------------------------------
(* regex::Regex::captures for the six patterns of rig.rs.  A pattern is a  *)
(* sequence of items between ^ and $: a literal, a capture group (c+) of   *)
(* one or more characters of a class, or a group (c) of one character.     *)
(* In each pattern the character after a group is not in the group's       *)
(* class, so the greedy match of the group without backtracking is exact.  *)

Lit(s) == [k |-> "lit", s |-> s, c |-> "-"]
Plus(c) == [k |-> "plus", s |-> <<>>, c |-> c]
One(c) == [k |-> "one", s |-> <<>>, c |-> c]

InClass(c, ch) ==
    IF c = "d" THEN ch \in AsciiDigits \cup {UniDigit}   \* \d (Unicode Nd)
    ELSE ch \in UpperChars                               \* [A-Z]

NoMatch == [m |-> FALSE, c |-> <<>>]

\* Length of the longest run of characters of class c in text from index i.
RECURSIVE RunLen(_, _, _)
RunLen(c, text, i) ==
    IF i <= Len(text) /\ InClass(c, text[i])
    THEN 1 + RunLen(c, text, i + 1)
    ELSE 0

HasLitAt(s, text, i) ==
    /\ i + Len(s) - 1 <= Len(text)
    /\ SubSeq(text, i, i + Len(s) - 1) = s

RECURSIVE MatchFrom(_, _, _, _)
MatchFrom(pat, text, i, caps) ==
    IF pat = <<>>
    THEN IF i = Len(text) + 1 THEN [m |-> TRUE, c |-> caps] ELSE NoMatch
    ELSE LET it == Head(pat) IN
         IF it.k = "lit"
         THEN IF HasLitAt(it.s, text, i)
              THEN MatchFrom(Tail(pat), text, i + Len(it.s), caps)
              ELSE NoMatch
         ELSE LET n == IF it.k = "plus"
                       THEN RunLen(it.c, text, i)
                       ELSE IF i <= Len(text) /\ InClass(it.c, text[i]) THEN 1 ELSE 0
              IN IF n = 0
                 THEN NoMatch
                 ELSE MatchFrom(Tail(pat), text, i + n,
                                Append(caps, SubSeq(text, i, i + n - 1)))

Unanchored(pat, text) ==
    \* a regex without ^ and $: the first match starting anywhere, any tail
    LET hits == {ij \in (1..(Len(text) + 1)) \X (0..Len(text)) :
                    /\ ij[1] <= ij[2] + 1
                    /\ MatchFrom(pat, SubSeq(text, ij[1], ij[2]), 1, <<>>).m}
    IN IF hits = {} THEN NoMatch
       ELSE LET ij == CHOOSE h \in hits : TRUE
            IN MatchFrom(pat, SubSeq(text, ij[1], ij[2]), 1, <<>>)

Captures(pat, text) == MatchFrom(pat, text, 1, <<>>)

RE_get_freq == <<Lit(PreGetFreq), Plus("d"), Lit(Rprt0)>>
RE_set_freq == <<Lit(PreSetFreq), Plus("d"), Lit(Rprt0)>>
RE_get_mode == <<Lit(PreGetMode), Plus("A"), Lit(MidGetMode), Plus("d"), Lit(Rprt0)>>
RE_set_mode == <<Lit(PreSetMode), Plus("A"), Lit(Space), Plus("d"), Lit(Rprt0)>>
RE_get_powerstat == <<Lit(PreGetPowerstat), One("d"), Lit(Rprt0)>>
RE_set_powerstat == <<Lit(PreSetPowerstat), One("d"), Lit(Rprt0)>>

----------------------------------------------------------------------------
(* str::parse::<u64>() and str::parse::<u16>().  The value parsed is       *)
(* represented by its canonical numeral; the parse fails on an empty       *)
(* string, on a character that is not an ASCII digit (InvalidDigit) and on *)
(* a value above the type's maximum (PosOverflow).                         *)

DigitVal(ch) ==
    CASE ch = "0" -> 0 [] ch = "1" -> 1 [] ch = "2" -> 2 [] ch = "3" -> 3
      [] ch = "4" -> 4 [] ch = "5" -> 5 [] ch = "6" -> 6 [] ch = "7" -> 7
      [] ch = "8" -> 8 [] ch = "9" -> 9

RECURSIVE StripZeros(_)
StripZeros(s) ==
    IF Len(s) > 1 /\ Head(s) = "0" THEN StripZeros(Tail(s)) ELSE s

\* a > b for two numerals of the same length
RECURSIVE LexGreater(_, _)
LexGreater(a, b) ==
    IF a = <<>> THEN FALSE
    ELSE IF DigitVal(Head(a)) # DigitVal(Head(b))
         THEN DigitVal(Head(a)) > DigitVal(Head(b))
         ELSE LexGreater(Tail(a), Tail(b))

\* a > b for two canonical numerals
NumGreater(a, b) ==
    \/ Len(a) > Len(b)
    \/ Len(a) = Len(b) /\ LexGreater(a, b)

ParseFail == [ok |-> FALSE, v |-> <<>>]

ParseUint(s, max) ==
    LET body == IF Len(s) > 1 /\ Head(s) = "+" THEN Tail(s) ELSE s IN
    IF body = <<>> \/ \E i \in 1..Len(body) : body[i] \notin AsciiDigits
    THEN ParseFail
    ELSE IF NumGreater(StripZeros(body), max)
         THEN ParseFail
         ELSE [ok |-> TRUE, v |-> StripZeros(body)]

ParseU64(s) == ParseUint(s, U64Max)
ParseU16(s) == ParseUint(s, U16Max)

\* format!("{}", n) for an unsigned integer: its canonical numeral.
FormatUint(n) == n

----------------------------------------------------------------------------
(* enum Mode with its Display and FromStr tables, enum PowerState with its *)
(* FromStr and Display tables.                                             *)

Mode == {"USB", "LSB", "CW", "CWR", "RTTY", "RTTYR", "AM", "FM", "WFM", "AMS", "PKTLSB", "PKTUSB", "PKTFM", "ECSSUSB", "ECSSLSB", "FAX", "SAM", "SAL", "SAH", "DSB"}

ModeDisplayTable ==
    [
     USB |-> <<"U", "S", "B">>,
     LSB |-> <<"L", "S", "B">>,
     CW |-> <<"C", "W">>,
     CWR |-> <<"C", "W", "R">>,
     RTTY |-> <<"R", "T", "T", "Y">>,
     RTTYR |-> <<"R", "T", "T", "Y", "R">>,
     AM |-> <<"A", "M">>,
     FM |-> <<"F", "M">>,
     WFM |-> <<"W", "F", "M">>,
     AMS |-> <<"A", "M", "S">>,
     PKTLSB |-> <<"P", "K", "T", "L", "S", "B">>,
     PKTUSB |-> <<"P", "K", "T", "U", "S", "B">>,
     PKTFM |-> <<"P", "K", "T", "F", "M">>,
     ECSSUSB |-> <<"E", "C", "S", "S", "U", "S", "B">>,
     ECSSLSB |-> <<"E", "C", "S", "S", "L", "S", "B">>,
     FAX |-> <<"F", "A", "X">>,
     SAM |-> <<"S", "A", "M">>,
     SAL |-> <<"S", "A", "L">>,
     SAH |-> <<"S", "A", "H">>,
     DSB |-> <<"D", "S", "B">>
    ]

ModeDisplay(m) ==
    CASE m = "USB" -> ModeDisplayTable.USB [] m = "LSB" -> ModeDisplayTable.LSB
      [] m = "CW" -> ModeDisplayTable.CW [] m = "CWR" -> ModeDisplayTable.CWR
      [] m = "RTTY" -> ModeDisplayTable.RTTY [] m = "RTTYR" -> ModeDisplayTable.RTTYR
      [] m = "AM" -> ModeDisplayTable.AM [] m = "FM" -> ModeDisplayTable.FM
      [] m = "WFM" -> ModeDisplayTable.WFM [] m = "AMS" -> ModeDisplayTable.AMS
      [] m = "PKTLSB" -> ModeDisplayTable.PKTLSB [] m = "PKTUSB" -> ModeDisplayTable.PKTUSB
      [] m = "PKTFM" -> ModeDisplayTable.PKTFM [] m = "ECSSUSB" -> ModeDisplayTable.ECSSUSB
      [] m = "ECSSLSB" -> ModeDisplayTable.ECSSLSB [] m = "FAX" -> ModeDisplayTable.FAX
      [] m = "SAM" -> ModeDisplayTable.SAM [] m = "SAL" -> ModeDisplayTable.SAL
      [] m = "SAH" -> ModeDisplayTable.SAH [] m = "DSB" -> ModeDisplayTable.DSB

ModeFromStrTable ==
    {
     <<<<"U", "S", "B">>, "USB">>,
     <<<<"L", "S", "B">>, "LSB">>,
     <<<<"C", "W">>, "CW">>,
     <<<<"C", "W", "R">>, "CWR">>,
     <<<<"R", "T", "T", "Y">>, "RTTY">>,
     <<<<"R", "T", "T", "Y", "R">>, "RTTYR">>,
     <<<<"A", "M">>, "AM">>,
     <<<<"F", "M">>, "FM">>,
     <<<<"W", "F", "M">>, "WFM">>,
     <<<<"A", "M", "S">>, "AMS">>,
     <<<<"P", "K", "T", "L", "S", "B">>, "PKTLSB">>,
     <<<<"P", "K", "T", "U", "S", "B">>, "PKTUSB">>,
     <<<<"P", "K", "T", "F", "M">>, "PKTFM">>,
     <<<<"E", "C", "S", "S", "U", "S", "B">>, "ECSSUSB">>,
     <<<<"E", "C", "S", "S", "L", "S", "B">>, "ECSSLSB">>,
     <<<<"F", "A", "X">>, "FAX">>,
     <<<<"S", "A", "M">>, "SAM">>,
     <<<<"S", "A", "L">>, "SAL">>,
     <<<<"S", "A", "H">>, "SAH">>,
     <<<<"D", "S", "B">>, "DSB">>
    }

ModeFromStrLenient(s) ==
    \* a from_str that takes an unknown token for USB
    IF \E e \in ModeFromStrTable : e[1] = s
    THEN Ok((CHOOSE e \in ModeFromStrTable : e[1] = s)[2])
    ELSE Ok("USB")

ModeFromStr(s) ==
    IF \E e \in ModeFromStrTable : e[1] = s
    THEN Ok((CHOOSE e \in ModeFromStrTable : e[1] = s)[2])
    ELSE Err("InternalError")

PowerState == {"PowerOff", "PowerOn", "StandBy"}

PowerStateFromStr(s) ==
    CASE s = <<"0">> -> Ok("PowerOff")
      [] s = <<"1">> -> Ok("PowerOn")
      [] s = <<"2">> -> Ok("StandBy")
      [] OTHER -> Err("InternalError")

PowerStateDisplay(p) ==
    CASE p = "PowerOff" -> <<"0">>
      [] p = "PowerOn" -> <<"1">>
      [] p = "StandBy" -> <<"2">>

----------------------------------------------------------------------------
(* Framing: write_line, read_line, execute_command.                        *)

RECURSIVE TrimEnd(_)
TrimEnd(s) ==
    IF s # <<>> /\ s[Len(s)] \in WhiteSpace
    THEN TrimEnd(SubSeq(s, 1, Len(s) - 1))
    ELSE s

\* What the bounded read can produce: the timeout elapses, the read fails,
\* or it returns the bytes of one line (no bytes at all: the peer closed).
Elapsed == [k |-> "elapsed", l |-> <<>>]
IoErr == [k |-> "ioerr", l |-> <<>>]
Data(l) == [k |-> "data", l |-> l]
Eof == Data(<<>>)
NoEvent == [k |-> "none", l |-> <<>>]

ReadLine(ev) ==
    IF ev.k = "elapsed" THEN Err("ConnectionError")
    ELSE IF ev.k = "ioerr" THEN Err("InternalError")
    ELSE IF Len(ev.l) = 0 THEN Err("ConnectionError")
    ELSE Ok(TrimEnd(ev.l))

WriteLine(wr) ==
    IF wr = "ok" THEN Ok(Unit) ELSE Err("ConnectionError")

FramedCrLf(data) ==
    \* a write_line that ends the line with carriage return and newline
    data \o <<"\r", "\n">>

\* the bytes write_line hands to write_all: format!("{}\n", data)
Framed(data) == data \o <<"\n">>

ExecuteCommandRetry(input, wr, ev) ==
    \* an execute_command that sends the request again when the read fails
    IF writer = None
    THEN [out |-> Panic, wrote |-> <<>>, reads |-> 0, steps |-> <<>>]
    ELSE IF ~IsOk(WriteLine(wr))
         THEN [out |-> WriteLine(wr), wrote |-> <<Framed(input)>>, reads |-> 0,
               steps |-> <<"write">>]
         ELSE IF reader = None
              THEN [out |-> Panic, wrote |-> <<Framed(input)>>, reads |-> 0,
                    steps |-> <<"write">>]
              ELSE IF IsOk(ReadLine(ev))
                   THEN [out |-> ReadLine(ev), wrote |-> <<Framed(input)>>, reads |-> 1,
                         steps |-> <<"write", "read">>]
                   ELSE [out |-> ReadLine(ev), wrote |-> <<Framed(input), Framed(input)>>,
                         reads |-> 1, steps |-> <<"write", "read", "write", "read">>]

\* execute_command on the current reader and writer; wr and ev are what the
\* transport does.  The result carries what was handed to the write half, the
\* number of read_line calls made and the transport steps in their order.
ExecuteCommand(input, wr, ev) ==
    IF writer = None
    THEN [out |-> Panic, wrote |-> <<>>, reads |-> 0, steps |-> <<>>]
    ELSE IF ~IsOk(WriteLine(wr))
         THEN [out |-> WriteLine(wr), wrote |-> <<Framed(input)>>, reads |-> 0,
               steps |-> <<"write">>]
         ELSE IF reader = None
              THEN [out |-> Panic, wrote |-> <<Framed(input)>>, reads |-> 0,
                    steps |-> <<"write">>]
              ELSE [out |-> ReadLine(ev), wrote |-> <<Framed(input)>>, reads |-> 1,
                    steps |-> <<"write", "read">>]

----------------------------------------------------------------------------
(* The typed operations, as functions of what execute_command returned.    *)

GetFrequencyResult(r) ==
    IF ~IsOk(r) THEN r
    ELSE LET c == Captures(RE_get_freq, r.v) IN
         IF ~c.m THEN Err("InternalError")
         ELSE LET p == ParseU64(c.c[1]) IN
              IF p.ok THEN Ok(p.v) ELSE Panic

SetFrequencyResult(frequency, r) ==
    IF ~IsOk(r) THEN r
    ELSE LET c == Captures(RE_set_freq, r.v) IN
         IF ~c.m THEN Err("InternalError")
         ELSE LET p == ParseU64(c.c[1]) IN
              IF ~p.ok THEN Panic
              ELSE IF p.v = frequency THEN Ok(Unit) ELSE Err("InternalError")

GetModeResult(r) ==
    IF ~IsOk(r) THEN r
    ELSE LET c == Captures(RE_get_mode, r.v) IN
         IF ~c.m THEN Err("InternalError")
         ELSE LET mode == ModeFromStr(c.c[1]) IN
              IF ~IsOk(mode) THEN mode
              ELSE LET p == ParseU16(c.c[2]) IN
                   IF p.ok THEN Ok(<<mode.v, p.v>>) ELSE Panic

SetModeResult(mode, passband, r) ==
    IF ~IsOk(r) THEN r
    ELSE LET c == Captures(RE_set_mode, r.v) IN
         IF ~c.m THEN Err("InternalError")
         ELSE LET mode_out == ModeFromStr(c.c[1]) IN
              IF ~IsOk(mode_out) THEN mode_out
              ELSE LET p == ParseU16(c.c[2]) IN
                   IF ~p.ok THEN Panic
                   ELSE IF mode = mode_out.v /\ p.v = passband
                        THEN Ok(Unit)
                        ELSE Err("InternalError")

GetPowerstateResult(r) ==
    IF ~IsOk(r) THEN r
    ELSE LET c == Captures(RE_get_powerstat, r.v) IN
         IF ~c.m THEN Err("InternalError")
         ELSE PowerStateFromStr(c.c[1])

SetPowerstateResult(state, r) ==
    IF ~IsOk(r) THEN r
    ELSE LET c == Captures(RE_set_powerstat, r.v) IN
         IF ~c.m THEN Err("InternalError")
         ELSE LET state_out == PowerStateFromStr(c.c[1]) IN
              IF ~IsOk(state_out) THEN Panic
              ELSE IF state = state_out.v THEN Ok(Unit) ELSE Err("InternalError")

----------------------------------------------------------------------------
(* Inputs: what callers pass and what the transport may deliver.           *)

U64MaxPlus1 == <<"1", "8", "4", "4", "6", "7", "4", "4", "0", "7", "3", "7", "0", "9", "5", "5", "1", "6", "1", "6">>
U16MaxPlus1 == <<"6", "5", "5", "3", "6">>

\* digit strings of length 1..MaxDigits over {0, 7}
GenDigits == UNION {[1..k -> {"0", "7"}] : k \in 1..MaxDigits}

\* field contents tried where the grammar expects a number
Payloads ==
    GenDigits \cup {<<"1">>, <<"2">>, U16Max, U16MaxPlus1, U64Max, U64MaxPlus1,
                    <<UniDigit>>, <<"7", "a">>, <<>>}

\* field contents tried for the passband of a mode line
ModePayloads ==
    GenDigits \cup {U16Max, U16MaxPlus1, <<UniDigit>>}

\* field contents tried where the grammar expects a mode token
ModeToks == {<<"U", "S", "B">>, <<"L", "S", "B">>, <<"X", "Y", "Z">>}

GoodGetFreq == PreGetFreq \o <<"7">> \o Rprt0
GoodSetFreq == PreSetFreq \o <<"7">> \o Rprt0
GoodGetMode == PreGetMode \o <<"U", "S", "B">> \o MidGetMode \o <<"7">> \o Rprt0
GoodSetMode == PreSetMode \o <<"U", "S", "B">> \o Space \o <<"7">> \o Rprt0
GoodGetPowerstat == PreGetPowerstat \o <<"1">> \o Rprt0
GoodSetPowerstat == PreSetPowerstat \o <<"1">> \o Rprt0

GoodLines == {GoodGetFreq, GoodSetFreq, GoodGetMode, GoodSetMode,
              GoodGetPowerstat, GoodSetPowerstat}

\* a well-formed line damaged in one place
Deviations(l) ==
    {SubSeq(l, 1, Len(l) - 1),               \* truncated
     SubSeq(l, 1, Len(l) - 1) \o <<"1">>,     \* RPRT 1
     SubSeq(l, 2, Len(l)),                    \* first character missing
     <<"x">> \o l,                            \* leading text
     l \o <<"x">>,                            \* trailing text
     l \o <<" ">>,                            \* trailing blank
     l \o l,                                  \* the line twice
     [i \in 1..Len(l) |-> IF l[i] = "U" THEN "u" ELSE l[i]],  \* a lower-case letter
     <<>>}                                    \* empty line

\* The bytes one read_line call may return for a reply: a line ending in \n
\* or \r\n, or a last line cut short by the end of the stream.  Every
\* operation is also tried on the well-formed replies of the other five.
Wire(contents, good) ==
    {c \o <<"\n">> : c \in contents \cup Deviations(good) \cup GoodLines}
    \cup {good \o <<"\r", "\n">>, good}

WireGetFreq == Wire({PreGetFreq \o p \o Rprt0 : p \in Payloads}, GoodGetFreq)
WireSetFreq == Wire({PreSetFreq \o p \o Rprt0 : p \in Payloads}, GoodSetFreq)
WireGetMode ==
    Wire({PreGetMode \o t \o MidGetMode \o p \o Rprt0 : t \in ModeToks, p \in ModePayloads},
         GoodGetMode)
WireSetMode ==
    Wire({PreSetMode \o t \o Space \o p \o Rprt0 : t \in ModeToks, p \in ModePayloads},
         GoodSetMode)
WireGetPowerstat ==
    Wire({PreGetPowerstat \o p \o Rprt0 : p \in Payloads}, GoodGetPowerstat)
WireSetPowerstat ==
    Wire({PreSetPowerstat \o p \o Rprt0 : p \in Payloads}, GoodSetPowerstat)

EventsGetFreq == {Elapsed, IoErr, Eof} \cup {Data(l) : l \in WireGetFreq}
EventsSetFreq == {Elapsed, IoErr, Eof} \cup {Data(l) : l \in WireSetFreq}
EventsGetMode == {Elapsed, IoErr, Eof} \cup {Data(l) : l \in WireGetMode}
EventsSetMode == {Elapsed, IoErr, Eof} \cup {Data(l) : l \in WireSetMode}
EventsGetPowerstat == {Elapsed, IoErr, Eof} \cup {Data(l) : l \in WireGetPowerstat}
EventsSetPowerstat == {Elapsed, IoErr, Eof} \cup {Data(l) : l \in WireSetPowerstat}

\* What the transport may do during one execute_command: nothing is written
\* without a write half, nothing is read after a failed write, and a stream
\* the peer has closed only reports its end.
Transport(events) ==
    IF writer = None THEN {<<"ok", NoEvent>>}
    ELSE {<<"fail", NoEvent>>}
         \cup {<<"ok", ev>> : ev \in IF reader = None THEN {NoEvent}
                                     ELSE IF peerClosed THEN {Eof} ELSE events}

WriteResults == {"ok", "fail"}

Frequencies == {<<"7">>, U64Max}
Passbands == {<<"7">>, U16Max}
ArgModes == {"USB", "LSB"}
Timeouts == {250, 1000}

----------------------------------------------------------------------------
(* The client `Rig` (src/rig.rs).                                          *)

DefaultTimeout == 250

Pre == [reader |-> reader, writer |-> writer, timeout |-> timeout]

NoCall == [op |-> "new", arg |-> <<>>, wrote |-> <<>>, reads |-> 0, steps |-> <<>>,
           ev |-> NoEvent,
           out |-> Ok(Unit), pre |-> [reader |-> None, writer |-> None,
                                      timeout |-> DefaultTimeout],
           attempt |-> FALSE]

\* the radio of the daemon when it starts (hamlib's dummy rig)
DummyRig == [freq |-> <<"1", "4", "5", "0", "0", "0", "0", "0", "0">>,
             mode |-> "FM",
             passband |-> <<"1", "5", "0", "0", "0">>]

\* Rig::new and the supervisor before any spawn
Init ==
    /\ reader = None
    /\ writer = None
    /\ timeout = DefaultTimeout
    /\ conns = 0
    /\ peerClosed = FALSE
    /\ panicked = FALSE
    /\ last = NoCall
    /\ rigctlds = <<>>
    /\ procs = <<>>
    /\ dlast = [op |-> "none", h |-> 0, out |-> Ok(Unit), pre |-> <<>>, preProcs |-> <<>>]
    /\ rig = DummyRig
    /\ pending = <<>>
    /\ prev = [call |-> [op |-> "new", arg |-> <<>>, out |-> Ok(Unit)], pending |-> <<>>]

ConnectNoGuard(tcp) ==
    \* a connect without the check for a held connection
    IF tcp = "ok"
    THEN [out |-> Ok(Unit), attempt |-> TRUE, fresh |-> TRUE]
    ELSE [out |-> Err("ConnectionError"), attempt |-> TRUE, fresh |-> FALSE]

\* the result of connect: tcp is what TcpStream::connect does
ConnectResult(tcp) ==
    IF reader # None /\ writer # None
    THEN [out |-> Err("ConnectionError"), attempt |-> FALSE, fresh |-> FALSE]
    ELSE IF tcp = "ok"
         THEN [out |-> Ok(Unit), attempt |-> TRUE, fresh |-> TRUE]
         ELSE [out |-> Err("ConnectionError"), attempt |-> TRUE, fresh |-> FALSE]

ConnectSetsReaderOnly(c) ==
    \* a connect that stores the read half only
    /\ c.fresh => conns < MaxConn
    /\ reader' = IF c.fresh THEN Some(conns + 1) ELSE reader
    /\ writer' = writer
    /\ conns' = IF c.fresh THEN conns + 1 ELSE conns
    /\ peerClosed' = IF c.fresh THEN FALSE ELSE peerClosed
    /\ last' = [op |-> "connect", arg |-> <<>>, wrote |-> <<>>, reads |-> 0, steps |-> <<>>,
                ev |-> NoEvent, out |-> c.out, pre |-> Pre, attempt |-> c.attempt]
    /\ UNCHANGED <<timeout, panicked>>

\* connect stores both halves of the split stream, or neither
ConnectWith(c) ==
    /\ c.fresh => conns < MaxConn
    /\ reader' = IF c.fresh THEN Some(conns + 1) ELSE reader
    /\ writer' = IF c.fresh THEN Some(conns + 1) ELSE writer
    /\ conns' = IF c.fresh THEN conns + 1 ELSE conns
    /\ peerClosed' = IF c.fresh THEN FALSE ELSE peerClosed
    /\ last' = [op |-> "connect", arg |-> <<>>, wrote |-> <<>>, reads |-> 0, steps |-> <<>>,
                ev |-> NoEvent, out |-> c.out, pre |-> Pre, attempt |-> c.attempt]
    /\ UNCHANGED <<timeout, panicked>>

Connect ==
    /\ ~panicked
    /\ \E tcp \in {"ok", "refused"} : ConnectWith(ConnectResult(tcp))
    /\ UNCHANGED <<daemonVars, rigVars>>

DisconnectResult ==
    IF reader = None /\ writer = None THEN Err("ConnectionError") ELSE Ok(Unit)

DisconnectClient ==
    /\ reader' = None
    /\ writer' = None
    /\ last' = [op |-> "disconnect", arg |-> <<>>, wrote |-> <<>>, reads |-> 0, steps |-> <<>>,
                ev |-> NoEvent, out |-> DisconnectResult, pre |-> Pre,
                attempt |-> FALSE]
    /\ UNCHANGED <<timeout, conns, peerClosed, panicked>>

Disconnect ==
    /\ ~panicked
    /\ DisconnectClient
    /\ UNCHANGED <<daemonVars, rigVars>>

SetCommunicationTimeout ==
    /\ ~panicked
    /\ \E t \in Timeouts :
        /\ timeout' = t
        /\ last' = [op |-> "set_communication_timeout", arg |-> <<t>>, wrote |-> <<>>,
                    reads |-> 0, steps |-> <<>>, ev |-> NoEvent, out |-> Ok(Unit), pre |-> Pre,
                    attempt |-> FALSE]
    /\ UNCHANGED <<reader, writer, conns, peerClosed, panicked>>
    /\ UNCHANGED <<daemonVars, rigVars>>

HalvesDroppedOnError(out) ==
    \* a client that drops both halves whenever an operation fails
    IF IsOk(out) THEN <<reader, writer>> ELSE <<None, None>>

\* The read and write half a typed operation leaves behind: no typed
\* operation, execute_command, read_line or write_line assigns them, on any
\* path, whatever the result.
HalvesAfter(out) == <<reader, writer>>

\* One typed operation: one execute_command and the operation's validation.
Exchange(op, arg, input, events, Result(_)) ==
    /\ \E t \in Transport(events) :
        LET x == ExecuteCommand(input, t[1], t[2])
            out == Result(x.out)
        IN /\ last' = [op |-> op, arg |-> arg, wrote |-> x.wrote, reads |-> x.reads,
                       steps |-> x.steps,
                       ev |-> t[2], out |-> out, pre |-> Pre, attempt |-> FALSE]
           /\ panicked' = IsPanic(out)
           /\ peerClosed' = (peerClosed \/ (x.reads = 1 /\ t[2] = Eof))
           /\ reader' = HalvesAfter(out)[1]
           /\ writer' = HalvesAfter(out)[2]
    /\ UNCHANGED <<timeout, conns>>
    /\ UNCHANGED <<daemonVars, rigVars>>

GetFrequency ==
    /\ ~panicked
    /\ Exchange("get_frequency", <<>>, CmdGetFreq, EventsGetFreq,
                LAMBDA r : GetFrequencyResult(r))

SetFrequency ==
    /\ ~panicked
    /\ \E frequency \in Frequencies :
        Exchange("set_frequency", <<frequency>>, CmdSetFreq \o FormatUint(frequency),
                 EventsSetFreq, LAMBDA r : SetFrequencyResult(frequency, r))

GetMode ==
    /\ ~panicked
    /\ Exchange("get_mode", <<>>, CmdGetMode, EventsGetMode,
                LAMBDA r : GetModeResult(r))

SetMode ==
    /\ ~panicked
    /\ \E mode \in ArgModes, passband \in Passbands :
        Exchange("set_mode", <<mode, passband>>,
                 CmdSetMode \o ModeDisplay(mode) \o Space \o FormatUint(passband),
                 EventsSetMode, LAMBDA r : SetModeResult(mode, passband, r))

GetPowerstate ==
    /\ ~panicked
    /\ Exchange("get_powerstate", <<>>, CmdGetPowerstat, EventsGetPowerstat,
                LAMBDA r : GetPowerstateResult(r))

SetPowerstate ==
    /\ ~panicked
    /\ \E state \in PowerState :
        Exchange("set_powerstate", <<state>>, CmdSetPowerstat \o PowerStateDisplay(state),
                 EventsSetPowerstat, LAMBDA r : SetPowerstateResult(state, r))

Next ==
    \/ Connect
    \/ Disconnect
    \/ SetCommunicationTimeout
    \/ GetFrequency
    \/ SetFrequency
    \/ GetMode
    \/ SetMode
    \/ GetPowerstate
    \/ SetPowerstate

Spec == Init /\ [][Next]_vars

----------------------------------------------------------------------------
(* The earlier client `Rigctld` of src/lib.rs: connect, the frequency and   *)
(* mode operations, no disconnect and a fixed read timeout.  Its typed      *)
(* operations and its framing are the same code as in rig.rs.               *)

\* Rigctld::connect of lib.rs: no check for a held connection
LibConnectResult(tcp) ==
    IF tcp = "ok"
    THEN [out |-> Ok(Unit), attempt |-> TRUE, fresh |-> TRUE]
    ELSE [out |-> Err("ConnectionError"), attempt |-> TRUE, fresh |-> FALSE]

LibConnect ==
    /\ ~panicked
    /\ \E tcp \in {"ok", "refused"} : ConnectWith(LibConnectResult(tcp))
    /\ UNCHANGED <<daemonVars, rigVars>>

LibGetFrequency ==
    /\ ~panicked
    /\ Exchange("get_frequency", <<>>, CmdGetFreq, EventsGetFreq,
                LAMBDA r : GetFrequencyResult(r))

LibSetFrequency ==
    /\ ~panicked
    /\ \E frequency \in Frequencies :
        Exchange("set_frequency", <<frequency>>, CmdSetFreq \o FormatUint(frequency),
                 EventsSetFreq, LAMBDA r : SetFrequencyResult(frequency, r))

LibGetMode ==
    /\ ~panicked
    /\ Exchange("get_mode", <<>>, CmdGetMode, EventsGetMode,
                LAMBDA r : GetModeResult(r))

LibSetMode ==
    /\ ~panicked
    /\ \E mode \in ArgModes, passband \in Passbands :
        Exchange("set_mode", <<mode, passband>>,
                 CmdSetMode \o ModeDisplay(mode) \o Space \o FormatUint(passband),
                 EventsSetMode, LAMBDA r : SetModeResult(mode, passband, r))

LibNext ==
    \/ LibConnect
    \/ LibGetFrequency
    \/ LibSetFrequency
    \/ LibGetMode
    \/ LibSetMode

LibSpec == Init /\ [][LibNext]_vars

----------------------------------------------------------------------------
(* The supervisor (src/daemon.rs): `Daemon` is the configuration, and each  *)
(* successful Daemon::spawn returns a new `Rigctld` owning the child.       *)
(* rigctlds[h] is the h-th Rigctld returned; procs[pid] is the pid-th       *)
(* process started.                                                        *)

DefaultDaemon ==
    [program |-> <<"r", "i", "g", "c", "t", "l", "d">>,
     host |-> <<"1", "2", "7", ".", "0", ".", "0", ".", "1">>,
     port |-> <<"4", "5", "3", "2">>,
     model |-> <<"1">>,
     rig_file |-> None,
     serial_speed |-> None,
     civ_address |-> None]

set_model(d, model) == [d EXCEPT !.model = model]
set_rig_file(d, file) == [d EXCEPT !.rig_file = Some(file)]
set_serial_speed(d, speed) == [d EXCEPT !.serial_speed = Some(speed)]
set_civ_address(d, addr) == [d EXCEPT !.civ_address = Some(addr)]

\* the configuration of examples/ic7200.rs (0x76 = 118)
Ic7200Daemon ==
    set_rig_file(
        set_civ_address(
            set_serial_speed(set_model(DefaultDaemon, <<"3", "0", "6", "1">>), <<"1", "9", "2", "0", "0">>),
            <<"1", "1", "8">>),
        <<"/", "d", "e", "v", "/", "t", "t", "y", "U", "S", "B", "0">>)

\* configurations with one option set
RigFileDaemon ==
    set_rig_file(DefaultDaemon, <<"/", "d", "e", "v", "/", "t", "t", "y", "U", "S", "B", "0">>)
SerialSpeedDaemon == set_serial_speed(DefaultDaemon, <<"1", "9", "2", "0", "0">>)

Daemons == {DefaultDaemon, Ic7200Daemon, RigFileDaemon, SerialSpeedDaemon}

ArgvSpeedForFile(d) ==
    \* an argument vector that passes the serial speed only when a device
    \* file is configured as well
    <<<<"-", "T">>, d.host, <<"-", "t">>, FormatUint(d.port), <<"-", "m">>, FormatUint(d.model)>>
    \o (IF d.rig_file # None THEN <<<<"-", "r">>, d.rig_file[1]>> ELSE <<>>)
    \o (IF d.serial_speed # None /\ d.rig_file # None
        THEN <<<<"-", "s">>, FormatUint(d.serial_speed[1])>> ELSE <<>>)
    \o (IF d.civ_address # None THEN <<<<"-", "c">>, FormatUint(d.civ_address[1])>> ELSE <<>>)

\* the arguments Daemon::spawn passes to Command
Argv(d) ==
    <<<<"-", "T">>, d.host, <<"-", "t">>, FormatUint(d.port), <<"-", "m">>, FormatUint(d.model)>>
    \o (IF d.rig_file # None THEN <<<<"-", "r">>, d.rig_file[1]>> ELSE <<>>)
    \o (IF d.serial_speed # None THEN <<<<"-", "s">>, FormatUint(d.serial_speed[1])>> ELSE <<>>)
    \o (IF d.civ_address # None THEN <<<<"-", "c">>, FormatUint(d.civ_address[1])>> ELSE <<>>)

Handles == 1..Len(rigctlds)
Held(h) == rigctlds[h].daemon # None
Alive(pid) == procs[pid].st = "running"

NotStarted == Err("NotFound")     \* io::ErrorKind::NotFound, "Daemon not started"

DPre(op, h, out) ==
    [op |-> op, h |-> h, out |-> out, pre |-> rigctlds, preProcs |-> procs]

SpawnRefusesSecond(os) ==
    \* a spawn that refuses to start a process while a handle holds a child
    IF \E h \in Handles : Held(h) THEN "already"
    ELSE IF os = "ok" THEN "started" ELSE "failed"

KillOnDropUnset == FALSE     \* a Command left at its default

\* binding.kill_on_drop(true)
KillOnDrop == TRUE

\* what Daemon::spawn does, os being what Command::spawn does
SpawnOutcome(os) ==
    IF os = "ok" THEN "started" ELSE "failed"

Spawn ==
    /\ \E d \in Daemons, os \in {"ok", "fail"} :
        LET o == SpawnOutcome(os) IN
        IF o = "started"
        THEN /\ Len(procs) < MaxSpawn
             /\ procs' = Append(procs, [argv |-> Argv(d), st |-> "running",
                                        kill_on_drop |-> KillOnDrop, cfg |-> d])
             /\ rigctlds' = Append(rigctlds, [daemon |-> Some(Len(procs) + 1),
                                              dropped |-> FALSE])
             /\ dlast' = DPre("spawn", Len(rigctlds) + 1, Ok(Unit))
        ELSE /\ UNCHANGED <<procs, rigctlds>>
             /\ dlast' = DPre("spawn", 0,
                              IF o = "failed" THEN Err("SpawnFailed")
                              ELSE Err("AlreadyRunning"))
    /\ UNCHANGED <<clientVars, rigVars>>

\* the processes after the Child pid is dropped: a Child built with
\* kill_on_drop(true) is killed when dropped
DropChild(pid) ==
    IF Alive(pid) /\ procs[pid].kill_on_drop
    THEN [procs EXCEPT ![pid].st = "killed"]
    ELSE procs

KillKeepsChildOnError(h, k) ==
    \* a kill that clears the handle only when the request succeeded
    IF Held(h)
    THEN [out |-> IF k = "ok" THEN Ok(Unit) ELSE Err("KillFailed"),
          daemon |-> IF k = "ok" THEN None ELSE rigctlds[h].daemon]
    ELSE [out |-> NotStarted, daemon |-> None]

\* the result of Rigctld::kill on the h-th handle and the field it leaves, k
\* being what Child::kill does
KillResult(h, k) ==
    IF Held(h)
    THEN [out |-> IF k = "ok" THEN Ok(Unit) ELSE Err("KillFailed"), daemon |-> None]
    ELSE [out |-> NotStarted, daemon |-> None]

\* Rigctld::kill on the h-th handle.  Clearing the field drops the Child.
Kill ==
    /\ \E h \in Handles, k \in {"ok", "err"} :
        LET r == KillResult(h, k) IN
        /\ ~rigctlds[h].dropped
        /\ procs' = IF Held(h)
                    THEN LET pid == rigctlds[h].daemon[1]
                             sent == IF k = "ok" /\ Alive(pid)
                                     THEN [procs EXCEPT ![pid].st = "killed"]
                                     ELSE procs
                         IN IF r.daemon = None /\ Alive(pid) /\ sent[pid].st = "running"
                            THEN DropChild(pid)
                            ELSE sent
                    ELSE procs
        /\ rigctlds' = [rigctlds EXCEPT ![h].daemon = r.daemon]
        /\ dlast' = DPre("kill", h, r.out)
    /\ UNCHANGED <<clientVars, rigVars>>

IsRunningKeepsExited(h, w) ==
    \* an is_running that reports an exited child without clearing the handle
    IF ~Held(h) THEN [out |-> NotStarted, daemon |-> None]
    ELSE IF w = "err" THEN [out |-> Err("WaitFailed"), daemon |-> rigctlds[h].daemon]
    ELSE [out |-> Ok(<<Alive(rigctlds[h].daemon[1])>>), daemon |-> rigctlds[h].daemon]

\* the result of Rigctld::is_running on the h-th handle and the field it
\* leaves, w being what Child::try_wait does
IsRunningResult(h, w) ==
    IF ~Held(h) THEN [out |-> NotStarted, daemon |-> None]
    ELSE IF w = "err" THEN [out |-> Err("WaitFailed"), daemon |-> rigctlds[h].daemon]
    ELSE IF ~Alive(rigctlds[h].daemon[1]) THEN [out |-> Ok(<<FALSE>>), daemon |-> None]
    ELSE [out |-> Ok(<<TRUE>>), daemon |-> rigctlds[h].daemon]

\* Rigctld::is_running on the h-th handle
IsRunning ==
    /\ \E h \in Handles, w \in {"ok", "err"} :
        /\ ~rigctlds[h].dropped
        /\ rigctlds' = [rigctlds EXCEPT ![h].daemon = IsRunningResult(h, w).daemon]
        /\ dlast' = DPre("is_running", h, IsRunningResult(h, w).out)
    /\ UNCHANGED procs
    /\ UNCHANGED <<clientVars, rigVars>>

\* the caller discards the h-th handle: a held Child is dropped
DropRigctld ==
    /\ \E h \in Handles :
        /\ ~rigctlds[h].dropped
        /\ procs' = IF Held(h) THEN DropChild(rigctlds[h].daemon[1]) ELSE procs
        /\ rigctlds' = [rigctlds EXCEPT ![h] = [daemon |-> None, dropped |-> TRUE]]
        /\ dlast' = DPre("drop", h, Ok(Unit))
    /\ UNCHANGED <<clientVars, rigVars>>

\* the daemon process ends by itself (for instance its port is taken)
ChildExits ==
    /\ \E pid \in 1..Len(procs) :
        /\ Alive(pid)
        /\ procs' = [procs EXCEPT ![pid].st = "exited"]
        /\ dlast' = DPre("child_exits", 0, Ok(Unit))
    /\ UNCHANGED rigctlds
    /\ UNCHANGED <<clientVars, rigVars>>

\* the text `rigctld --version` may print
VersionOutputs == {<<"r", "i", "g", "c", "t", "l", "d", " ", "H", "a", "m", "l", "i", "b", " ", "4", ".", "5">> \o <<"\n">>,
                   <<"r", "i", "g", "c", "t", "l", "d", " ", "H", "a", "m", "l", "i", "b", " ", "4", ".", "5">>,
                   <<>>}

RECURSIVE Cleared(_)
\* the handles hs with every child taken away
Cleared(hs) ==
    IF hs = <<>> THEN <<>>
    ELSE <<[daemon |-> None, dropped |-> hs[1].dropped]>> \o Cleared(Tail(hs))

GetVersionReplacesChild ==
    \* a get_version that runs the query in place of the held children
    Cleared(rigctlds)

\* the handles after Daemon::get_version: the method takes &self of the
\* configuration, builds its own Command and waits for that process only
GetVersionLeaves == rigctlds

\* Daemon::get_version: a separate process run to completion
GetVersion ==
    /\ \E d \in Daemons, os \in {"ok", "fail"}, text \in VersionOutputs :
        dlast' = DPre("get_version", 0,
                      IF os = "ok" THEN Ok(TrimEnd(text)) ELSE Err("SpawnFailed"))
    /\ rigctlds' = GetVersionLeaves
    /\ UNCHANGED procs
    /\ UNCHANGED <<clientVars, rigVars>>

DaemonNext ==
    \/ Spawn
    \/ Kill
    \/ IsRunning
    \/ DropRigctld
    \/ ChildExits
    \/ GetVersion

DaemonSpec == Init /\ [][DaemonNext]_vars

----------------------------------------------------------------------------
(* Properties.                                                             *)

TypedOps == {"get_frequency", "set_frequency", "get_mode", "set_mode",
             "get_powerstate", "set_powerstate"}

Connected == reader # None /\ writer # None
WasConnected == last.pre.reader # None /\ last.pre.writer # None

\* the last call was a typed operation whose read step ended as ev
ReadEnded(ev) == last.op \in TypedOps /\ last.reads = 1 /\ last.ev = ev

\* the last call was a typed operation whose read step returned a line
GotLine == last.op \in TypedOps /\ last.reads = 1 /\ last.ev.k = "data" /\ last.ev.l # <<>>

\* C1: a command execution that reads zero bytes fails with ConnectionLost and
\* leaves the client Disconnected, both halves dropped.
C1_ZeroReadDisconnects ==
    (WasConnected /\ ReadEnded(Eof)) =>
        /\ IsErr(last.out, "ConnectionLost")
        /\ reader = None
        /\ writer = None

\* C2: connect on a client that holds a connection fails with AlreadyConnected,
\* makes no transport attempt and leaves the held connection unchanged.
C2_SecondConnectRefused ==
    (last.op = "connect" /\ WasConnected) =>
        /\ IsErr(last.out, "AlreadyConnected")
        /\ ~last.attempt
        /\ reader = last.pre.reader
        /\ writer = last.pre.writer

\* C3: whatever response line the daemon sends, a typed operation returns a
\* value or InternalError and never crashes.
C3_NeverCrashes ==
    GotLine => (IsOk(last.out) \/ IsErr(last.out, "InternalError"))

C5_DisconnectNeverFails ==
    last.op = "disconnect" =>
        /\ IsOk(last.out)
        /\ last.out.v = (IF last.pre.reader # None \/ last.pre.writer # None
                         THEN <<TRUE>> ELSE <<FALSE>>)
        /\ reader = None
        /\ writer = None

----------------------------------------------------------------------------
(* The response grammars, stated as the decomposition of a line into its   *)
(* literals and fields (independently of the matcher above).               *)

DecimalDigits == AsciiDigits \cup {UniDigit}

AllIn(s, chars) == \A i \in 1..Len(s) : s[i] \in chars

\* pre <digits> ;RPRT 0   (one digit only when single)
NumShape(l, pre, single) ==
    /\ Len(l) > Len(pre) + Len(Rprt0)
    /\ single => Len(l) = Len(pre) + 1 + Len(Rprt0)
    /\ SubSeq(l, 1, Len(pre)) = pre
    /\ AllIn(SubSeq(l, Len(pre) + 1, Len(l) - Len(Rprt0)), DecimalDigits)
    /\ SubSeq(l, Len(l) - Len(Rprt0) + 1, Len(l)) = Rprt0

NumField(l, pre) == SubSeq(l, Len(pre) + 1, Len(l) - Len(Rprt0))

\* pre <TOKEN> sep <digits> ;RPRT 0, the token being a letters long
ModeShapeAt(l, pre, sep, a) ==
    /\ Len(l) > Len(pre) + a + Len(sep) + Len(Rprt0)
    /\ SubSeq(l, 1, Len(pre)) = pre
    /\ AllIn(SubSeq(l, Len(pre) + 1, Len(pre) + a), UpperChars)
    /\ SubSeq(l, Len(pre) + a + 1, Len(pre) + a + Len(sep)) = sep
    /\ AllIn(SubSeq(l, Len(pre) + a + Len(sep) + 1, Len(l) - Len(Rprt0)), DecimalDigits)
    /\ SubSeq(l, Len(l) - Len(Rprt0) + 1, Len(l)) = Rprt0

ModeShape(l, pre, sep) == \E a \in 1..Len(l) : ModeShapeAt(l, pre, sep, a)

ModeTokLen(l, pre, sep) == CHOOSE a \in 1..Len(l) : ModeShapeAt(l, pre, sep, a)
ModeField(l, pre, sep) == SubSeq(l, Len(pre) + 1, Len(pre) + ModeTokLen(l, pre, sep))
PassbandField(l, pre, sep) ==
    SubSeq(l, Len(pre) + ModeTokLen(l, pre, sep) + Len(sep) + 1, Len(l) - Len(Rprt0))

Shape(op, l) ==
    CASE op = "get_frequency" -> NumShape(l, PreGetFreq, FALSE)
      [] op = "set_frequency" -> NumShape(l, PreSetFreq, FALSE)
      [] op = "get_mode" -> ModeShape(l, PreGetMode, MidGetMode)
      [] op = "set_mode" -> ModeShape(l, PreSetMode, Space)
      [] op = "get_powerstate" -> NumShape(l, PreGetPowerstat, TRUE)
      [] op = "set_powerstate" -> NumShape(l, PreSetPowerstat, TRUE)

\* the bytes of a line without its terminator (\n or \r\n)
StripTerminator(l) ==
    IF Len(l) >= 2 /\ l[Len(l) - 1] = "\r" /\ l[Len(l)] = "\n" THEN SubSeq(l, 1, Len(l) - 2)
    ELSE IF Len(l) >= 1 /\ l[Len(l)] = "\n" THEN SubSeq(l, 1, Len(l) - 1)
    ELSE l

\* the digit string d denotes the number whose numeral is n
SameNumber(d, n) == \E k \in 0..Len(d) : d = [i \in 1..k |-> "0"] \o n

\* the line execute_command returned in the last call
Returned == TrimEnd(last.ev.l)

\* C6 as claimed: a response line that does not fully match the operation's
\* grammar makes the operation fail with InternalError.
C6_LineMismatchIsInternalError ==
    (GotLine /\ ~Shape(last.op, StripTerminator(last.ev.l))) =>
        IsErr(last.out, "InternalError")

\* C6 as amended: a response line that, with all its trailing white space
\* removed, does not fully match the operation's grammar makes the operation
\* fail with InternalError.
C6_TrimmedLineMismatchIsInternalError ==
    (GotLine /\ ~Shape(last.op, Returned)) => IsErr(last.out, "InternalError")

\* set_mode rejected a reply that carries text after RPRT 0
C6_Witness ==
    /\ GotLine
    /\ last.op = "set_mode"
    /\ last.ev.l = GoodSetMode \o <<"x", "\n">>
    /\ IsErr(last.out, "InternalError")

\* C7: set_frequency(value) succeeds exactly when the response matches the
\* set_freq grammar and echoes value; a well-formed response echoing another
\* frequency fails with InternalError.
C7_SetFrequencyEcho ==
    (GotLine /\ last.op = "set_frequency") =>
        LET wf == Shape("set_frequency", Returned)
            same == wf /\ SameNumber(NumField(Returned, PreSetFreq), last.arg[1])
        IN /\ IsOk(last.out) <=> same
           /\ (wf /\ ~same) => IsErr(last.out, "InternalError")

\* C8: set_mode(mode, passband) succeeds exactly when the response matches the
\* set_mode grammar and echoes both the mode token and the passband; a
\* well-formed response that differs in either fails with InternalError.
C8_SetModeEcho ==
    (GotLine /\ last.op = "set_mode") =>
        LET wf == Shape("set_mode", Returned)
            same == /\ wf
                    /\ ModeField(Returned, PreSetMode, Space) = ModeDisplay(last.arg[1])
                    /\ SameNumber(PassbandField(Returned, PreSetMode, Space), last.arg[2])
        IN /\ IsOk(last.out) <=> same
           /\ (wf /\ ~same) => IsErr(last.out, "InternalError")

\* C9: get_powerstate maps the digits 0, 1, 2 to Off, On, StandBy;
\* set_powerstate(state) succeeds exactly when the well-formed response echoes
\* the digit of state, and a mismatching echo fails with InternalError; the
\* mapping between PowerState and its digit is a bijection.
C9_PowerstateEcho ==
    /\ \A p \in PowerState : PowerStateFromStr(PowerStateDisplay(p)) = Ok(p)
    /\ \A p, q \in PowerState : PowerStateDisplay(p) = PowerStateDisplay(q) => p = q
    /\ (GotLine /\ last.op = "get_powerstate" /\ Shape("get_powerstate", Returned)) =>
          LET d == NumField(Returned, PreGetPowerstat) IN
          /\ d = <<"0">> => (IsOk(last.out) /\ last.out.v = "PowerOff")
          /\ d = <<"1">> => (IsOk(last.out) /\ last.out.v = "PowerOn")
          /\ d = <<"2">> => (IsOk(last.out) /\ last.out.v = "StandBy")
    /\ (GotLine /\ last.op = "set_powerstate") =>
          LET wf == Shape("set_powerstate", Returned)
              same == wf /\ NumField(Returned, PreSetPowerstat) = PowerStateDisplay(last.arg[1])
          IN /\ IsOk(last.out) <=> same
             /\ (wf /\ ~same) => IsErr(last.out, "InternalError")

\* a handle held a child when the last supervisor call was made
HeldBefore == \E h \in 1..Len(dlast.pre) : dlast.pre[h].daemon # None

\* C10 as claimed: spawn invoked while a child handle is held fails with
\* AlreadyRunning, starts no process and leaves the held handle unchanged.
C10_SecondSpawnRefused ==
    (dlast.op = "spawn" /\ HeldBefore) =>
        /\ IsErr(dlast.out, "AlreadyRunning")
        /\ procs = dlast.preProcs
        /\ rigctlds = dlast.pre

\* C10 as amended: a handle holds at most one child and no child is held by
\* two handles; spawn invoked while an earlier handle holds a child never
\* fails with AlreadyRunning: it starts a new process and returns a new handle
\* holding it, or fails with the spawn error and starts nothing, and in both
\* cases leaves the earlier handles unchanged.
C10_SpawnReturnsNewHandle ==
    /\ \A h \in Handles : Len(rigctlds[h].daemon) <= 1
    /\ \A g, h \in Handles : (Held(g) /\ Held(h) /\ g # h) =>
                                rigctlds[g].daemon # rigctlds[h].daemon
    /\ (dlast.op = "spawn" /\ HeldBefore) =>
        /\ SubSeq(rigctlds, 1, Len(dlast.pre)) = dlast.pre
        /\ SubSeq(procs, 1, Len(dlast.preProcs)) = dlast.preProcs
        /\ IF IsOk(dlast.out)
           THEN /\ Len(procs) = Len(dlast.preProcs) + 1
                /\ Len(rigctlds) = Len(dlast.pre) + 1
                /\ rigctlds[Len(rigctlds)].daemon = Some(Len(procs))
                /\ Alive(Len(procs))
           ELSE /\ IsErr(dlast.out, "SpawnFailed")
                /\ procs = dlast.preProcs
                /\ rigctlds = dlast.pre

\* a second spawn succeeded while the first handle held a running child
C10_Witness ==
    /\ dlast.op = "spawn"
    /\ IsOk(dlast.out)
    /\ Len(rigctlds) = 2
    /\ Held(1) /\ Alive(rigctlds[1].daemon[1])
    /\ Held(2) /\ Alive(rigctlds[2].daemon[1])

----------------------------------------------------------------------------
(* The supervisor's handle: kill, is_running, discard, get_version.        *)

\* the last supervisor call was op, made on a handle that held a child
OnHeld(op) == dlast.op = op /\ dlast.pre[dlast.h].daemon # None

\* the last supervisor call was op, made on a handle that held no child
OnEmpty(op) == dlast.op = op /\ dlast.pre[dlast.h].daemon = None

\* the child the handle of the last call held, running or not before the call
ChildBefore == dlast.pre[dlast.h].daemon[1]
RanBefore == dlast.preProcs[ChildBefore].st = "running"

\* C11: kill fails with NotStarted (the NotFound error "Daemon not started")
\* when the handle holds no child; after any kill on a held child the handle
\* is cleared, whether the termination request succeeded or not; so a kill
\* that follows a kill on the same handle fails with NotStarted.
C11_KillClearsHandle ==
    /\ [](OnEmpty("kill") => (IsErr(dlast.out, "NotFound") /\ rigctlds = dlast.pre))
    /\ [](OnHeld("kill") =>
            /\ rigctlds[dlast.h].daemon = None
            /\ IsOk(dlast.out) \/ IsErr(dlast.out, "KillFailed")
            /\ \A g \in Handles : g # dlast.h => rigctlds[g] = dlast.pre[g])
    /\ [][(dlast.op = "kill" /\ dlast'.op = "kill" /\ dlast'.h = dlast.h)
            => IsErr(dlast'.out, "NotFound")]_vars

\* the only handle was killed successfully and then killed again
C11_Witness ==
    /\ OnEmpty("kill")
    /\ IsErr(dlast.out, "NotFound")
    /\ Len(rigctlds) = 1
    /\ Len(procs) = 1
    /\ procs[1].st = "killed"

\* C12 as claimed: is_running returns true and keeps the handle while the held
\* child runs, returns false and clears the handle once it has exited, and
\* fails with NotStarted when no child is held.
C12_IsRunningThreeCases ==
    /\ (OnHeld("is_running") /\ RanBefore) =>
            (IsOk(dlast.out) /\ dlast.out.v = <<TRUE>> /\ rigctlds = dlast.pre)
    /\ (OnHeld("is_running") /\ ~RanBefore) =>
            (IsOk(dlast.out) /\ dlast.out.v = <<FALSE>> /\ rigctlds[dlast.h].daemon = None)
    /\ OnEmpty("is_running") => IsErr(dlast.out, "NotFound")

\* C12 as amended: when the poll of the child's status succeeds, is_running
\* returns true and keeps the handle while the child runs and returns false
\* and clears the handle once it has exited; when the poll itself fails, the
\* error is returned and the handle is kept; with no child held it fails with
\* NotStarted, so a call that follows a kill or a call that returned false on
\* the same handle fails with NotStarted.  It never changes a process or
\* another handle.
C12_IsRunningPolls ==
    /\ []((OnHeld("is_running") /\ RanBefore) =>
            /\ rigctlds = dlast.pre
            /\ IF IsOk(dlast.out) THEN dlast.out.v = <<TRUE>>
               ELSE IsErr(dlast.out, "WaitFailed"))
    /\ []((OnHeld("is_running") /\ ~RanBefore) =>
            IF IsOk(dlast.out)
            THEN dlast.out.v = <<FALSE>> /\ rigctlds[dlast.h].daemon = None
            ELSE IsErr(dlast.out, "WaitFailed") /\ rigctlds = dlast.pre)
    /\ [](OnEmpty("is_running") => (IsErr(dlast.out, "NotFound") /\ rigctlds = dlast.pre))
    /\ [](dlast.op = "is_running" =>
            /\ procs = dlast.preProcs
            /\ \A g \in Handles : g # dlast.h => rigctlds[g] = dlast.pre[g])
    /\ [][(/\ dlast'.op = "is_running"
           /\ dlast'.h = dlast.h
           /\ \/ dlast.op = "kill"
              \/ dlast.op = "is_running" /\ IsOk(dlast.out) /\ dlast.out.v = <<FALSE>>)
            => IsErr(dlast'.out, "NotFound")]_vars

\* is_running saw that the child had exited by itself and cleared the handle
C12_Witness ==
    /\ OnHeld("is_running")
    /\ IsOk(dlast.out)
    /\ dlast.out.v = <<FALSE>>
    /\ procs[ChildBefore].st = "exited"
    /\ rigctlds[dlast.h].daemon = None

\* C17: discarding a handle that holds a child terminates the child, and in
\* every reachable state each running child is held by a handle that has not
\* been discarded.
C17_NoOrphan ==
    /\ \A pid \in 1..Len(procs) :
          Alive(pid) => \E h \in Handles : /\ ~rigctlds[h].dropped
                                           /\ rigctlds[h].daemon = Some(pid)
    /\ OnHeld("drop") => (~Alive(ChildBefore) /\ rigctlds[dlast.h].dropped)

\* a handle was discarded while its child was running
C17_Witness ==
    /\ OnHeld("drop")
    /\ RanBefore
    /\ procs[ChildBefore].st = "killed"

\* C18: get_version leaves every handle and every spawned process as they
\* were, whether it returns the version text or fails.
C18_GetVersionFrame ==
    dlast.op = "get_version" => (rigctlds = dlast.pre /\ procs = dlast.preProcs)

\* get_version failed while a handle held a running child
C18_Witness ==
    /\ dlast.op = "get_version"
    /\ ~IsOk(dlast.out)
    /\ \E h \in Handles : Held(h) /\ Alive(rigctlds[h].daemon[1])

----------------------------------------------------------------------------
(* Connecting, and what a typed operation puts on the wire.                *)

\* C16: a connect whose transport attempt fails returns ConnectionError and
\* leaves the client holding neither a read half nor a write half.
C16_FailedConnectLeavesDisconnected ==
    (last.op = "connect" /\ last.attempt /\ ~IsOk(last.out)) =>
        /\ IsErr(last.out, "ConnectionError")
        /\ reader = None
        /\ writer = None
        /\ timeout = last.pre.timeout

\* a client that was connected and disconnected finds no daemon listening
C16_Witness ==
    /\ last.op = "connect"
    /\ last.attempt
    /\ IsErr(last.out, "ConnectionError")
    /\ conns = 1
    /\ reader = None

\* the request lines of the wire-protocol table
ReqGetFreq == <<"\\", "g", "e", "t", "_", "f", "r", "e", "q">>
ReqSetFreq == <<"\\", "s", "e", "t", "_", "f", "r", "e", "q">>
ReqGetMode == <<"\\", "g", "e", "t", "_", "m", "o", "d", "e">>
ReqSetMode == <<"\\", "s", "e", "t", "_", "m", "o", "d", "e">>
ReqGetPowerstat == <<"\\", "g", "e", "t", "_", "p", "o", "w", "e", "r", "s", "t", "a", "t">>
ReqSetPowerstat == <<"\\", "s", "e", "t", "_", "p", "o", "w", "e", "r", "s", "t", "a", "t">>

\* the 20 mode tokens, as sequences of characters
ModeToken(m) ==
    CASE m = "USB" -> <<"U", "S", "B">>
      [] m = "LSB" -> <<"L", "S", "B">>
      [] m = "CW" -> <<"C", "W">>
      [] m = "CWR" -> <<"C", "W", "R">>
      [] m = "RTTY" -> <<"R", "T", "T", "Y">>
      [] m = "RTTYR" -> <<"R", "T", "T", "Y", "R">>
      [] m = "AM" -> <<"A", "M">>
      [] m = "FM" -> <<"F", "M">>
      [] m = "WFM" -> <<"W", "F", "M">>
      [] m = "AMS" -> <<"A", "M", "S">>
      [] m = "PKTLSB" -> <<"P", "K", "T", "L", "S", "B">>
      [] m = "PKTUSB" -> <<"P", "K", "T", "U", "S", "B">>
      [] m = "PKTFM" -> <<"P", "K", "T", "F", "M">>
      [] m = "ECSSUSB" -> <<"E", "C", "S", "S", "U", "S", "B">>
      [] m = "ECSSLSB" -> <<"E", "C", "S", "S", "L", "S", "B">>
      [] m = "FAX" -> <<"F", "A", "X">>
      [] m = "SAM" -> <<"S", "A", "M">>
      [] m = "SAL" -> <<"S", "A", "L">>
      [] m = "SAH" -> <<"S", "A", "H">>
      [] m = "DSB" -> <<"D", "S", "B">>

PowerDigit(p) ==
    CASE p = "PowerOff" -> <<"0">>
      [] p = "PowerOn" -> <<"1">>
      [] p = "StandBy" -> <<"2">>

\* the request line of the table for the last call, with the caller's values
TableLine ==
    CASE last.op = "get_frequency" -> ReqGetFreq
      [] last.op = "set_frequency" -> ReqSetFreq \o <<" ">> \o last.arg[1]
      [] last.op = "get_mode" -> ReqGetMode
      [] last.op = "set_mode" ->
            ReqSetMode \o <<" ">> \o ModeToken(last.arg[1]) \o <<" ">> \o last.arg[2]
      [] last.op = "get_powerstate" -> ReqGetPowerstat
      [] last.op = "set_powerstate" -> ReqSetPowerstat \o <<" ">> \o PowerDigit(last.arg[1])

\* the last call was a typed operation on a client that held a connection
TypedOnConnected == last.op \in TypedOps /\ WasConnected

\* C19 as claimed: each typed operation writes exactly its request line of the
\* table followed by a single newline.
C19_WritesTableLine ==
    TypedOnConnected => last.wrote = <<TableLine \o <<"\n">>>>

\* C19 as amended: each typed operation writes a semicolon, its request line
\* of the table with the caller's values and a single newline, and no other
\* bytes.
C19_WritesSemicolonTableLine ==
    /\ TypedOnConnected => last.wrote = <<<<";">> \o TableLine \o <<"\n">>>>
    /\ \A m \in Mode : ModeDisplay(m) = ModeToken(m)
    /\ \A p \in PowerState : PowerStateDisplay(p) = PowerDigit(p)

\* set_mode(LSB, 65535) was written and answered
C19_Witness ==
    /\ TypedOnConnected
    /\ last.op = "set_mode"
    /\ last.arg = <<"LSB", U16Max>>
    /\ last.reads = 1
    /\ IsOk(last.out)

\* C20: a typed operation on a Connected client is one command execution: one
\* write of one request line, then at most one read, never a read before the
\* write and never a second exchange, also when the write or the read fails;
\* the read is made exactly when the write succeeded.
C20_OneExchange ==
    TypedOnConnected =>
        /\ Len(last.wrote) = 1
        /\ last.steps \in {<<"write">>, <<"write", "read">>}
        /\ last.reads = Len(last.steps) - 1
        /\ last.steps = <<"write">> => IsErr(last.out, "ConnectionError")
        /\ \A i \in 1..Len(last.wrote[1]) :
              (last.wrote[1][i] = "\n") <=> (i = Len(last.wrote[1]))

\* the read of an exchange failed and nothing was sent again
C20_Witness ==
    /\ TypedOnConnected
    /\ last.steps = <<"write", "read">>
    /\ last.ev = IoErr
    /\ IsErr(last.out, "InternalError")

----------------------------------------------------------------------------
(* Reuse of a client.                                                      *)

\* the connection of the client was lost in the last call
LostConnection == WasConnected /\ ReadEnded(Eof)

\* C15: the client starts Disconnected, and whenever it has been disconnected
\* or has lost its connection, a connect to a listening daemon succeeds again
\* and gives it a new connection.
C15_ReusableAfterDisconnectOrLoss ==
    /\ last.op = "new" => (reader = None /\ writer = None)
    /\ (~panicked /\ (last.op = "disconnect" \/ LostConnection)) =>
          /\ IsOk(ConnectResult("ok").out)
          /\ ConnectResult("ok").fresh

----------------------------------------------------------------------------
(* A daemon that follows the wire protocol.  It holds the frequency, the   *)
(* mode and the passband of its radio, reads one request line at a time    *)
(* and answers it with one response line in the format the request asks    *)
(* for: with a leading semicolon, the one-line format that repeats the     *)
(* command; without it, the bare values, one per line.  Its answers reach  *)
(* the client in order; an answer that is late for the read of its own     *)
(* command stays in the connection and is what the next read returns.      *)

AnsGetFreq == <<"g", "e", "t", "_", "f", "r", "e", "q", ":", ";", "F", "r", "e", "q", "u", "e", "n", "c", "y", ":", " ">>
AnsSetFreq == <<"s", "e", "t", "_", "f", "r", "e", "q", ":", " ">>
AnsGetMode == <<"g", "e", "t", "_", "m", "o", "d", "e", ":", ";", "M", "o", "d", "e", ":", " ">>
AnsPassband == <<";", "P", "a", "s", "s", "b", "a", "n", "d", ":", " ">>
AnsSetMode == <<"s", "e", "t", "_", "m", "o", "d", "e", ":", " ">>
AnsRprt0 == <<";", "R", "P", "R", "T", " ", "0">>
PlainRprt0 == <<"R", "P", "R", "T", " ", "0">>
AnsInvalid == <<"R", "P", "R", "T", " ", "-", "1">>

StartsWith(s, p) == Len(s) >= Len(p) /\ SubSeq(s, 1, Len(p)) = p
After(s, p) == SubSeq(s, Len(p) + 1, Len(s))
IsNumeral(d) == d # <<>> /\ AllIn(d, AsciiDigits)

\* the mode and the passband of the arguments "TOKEN digits"
ModeArgs(a) ==
    {<<m, After(a, ModeToken(m) \o <<" ">>)>> :
        m \in {n \in Mode : /\ StartsWith(a, ModeToken(n) \o <<" ">>)
                            /\ IsNumeral(After(a, ModeToken(n) \o <<" ">>))}}

\* the radio after the request req, and the lines the daemon answers with
Answer(r, req) ==
    LET body == IF req # <<>> /\ req[Len(req)] = "\n"
                THEN SubSeq(req, 1, Len(req) - 1) ELSE req
        ext == body # <<>> /\ body[1] = ";"
        cmd == IF ext THEN Tail(body) ELSE body
        line(e, p) == <<(IF ext THEN e ELSE p) \o <<"\n">>>>
    IN IF cmd = ReqGetFreq
       THEN [rig |-> r,
             lines |-> line(AnsGetFreq \o r.freq \o AnsRprt0, r.freq)]
       ELSE IF StartsWith(cmd, ReqSetFreq \o <<" ">>)
               /\ IsNumeral(After(cmd, ReqSetFreq \o <<" ">>))
       THEN LET f == After(cmd, ReqSetFreq \o <<" ">>) IN
            [rig |-> [r EXCEPT !.freq = f],
             lines |-> line(AnsSetFreq \o f \o AnsRprt0, PlainRprt0)]
       ELSE IF cmd = ReqGetMode
       THEN [rig |-> r,
             lines |-> IF ext
                       THEN <<AnsGetMode \o ModeToken(r.mode) \o AnsPassband
                                \o r.passband \o AnsRprt0 \o <<"\n">>>>
                       ELSE <<ModeToken(r.mode) \o <<"\n">>, r.passband \o <<"\n">>>>]
       ELSE IF StartsWith(cmd, ReqSetMode \o <<" ">>)
               /\ ModeArgs(After(cmd, ReqSetMode \o <<" ">>)) # {}
       THEN LET a == CHOOSE x \in ModeArgs(After(cmd, ReqSetMode \o <<" ">>)) : TRUE IN
            [rig |-> [r EXCEPT !.mode = a[1], !.passband = a[2]],
             lines |-> line(AnsSetMode \o ModeToken(a[1]) \o <<" ">> \o a[2] \o AnsRprt0,
                            PlainRprt0)]
       ELSE [rig |-> r, lines |-> <<AnsInvalid \o <<"\n">>>>]

\* the call made last, with its arguments and result, and the unread lines
Prev == [call |-> [op |-> last.op, arg |-> last.arg, out |-> last.out],
         pending |-> pending]

\* One typed operation of a connected client against that daemon: the request
\* is written and answered; the read returns the oldest unread line, or times
\* out when the answer is late.
Served(op, arg, input, Result(_)) ==
    LET a == Answer(rig, Framed(input))
        queue == pending \o a.lines
    IN \E late \in BOOLEAN :
        LET ev == IF late THEN Elapsed ELSE Data(Head(queue))
            x == ExecuteCommand(input, "ok", ev)
            out == Result(x.out)
        IN /\ Connected
           /\ late => Len(queue) <= MaxPending
           /\ last' = [op |-> op, arg |-> arg, wrote |-> x.wrote, reads |-> x.reads,
                       steps |-> x.steps, ev |-> ev, out |-> out, pre |-> Pre,
                       attempt |-> FALSE]
           /\ prev' = Prev
           /\ rig' = a.rig
           /\ pending' = IF late THEN queue ELSE Tail(queue)
           /\ panicked' = IsPanic(out)
           /\ reader' = HalvesAfter(out)[1]
           /\ writer' = HalvesAfter(out)[2]
           /\ UNCHANGED <<timeout, conns, peerClosed>>
           /\ UNCHANGED daemonVars

\* connect to that daemon; a new connection starts without unread lines
FaithfulConnect ==
    /\ ~panicked
    /\ ConnectWith(ConnectResult("ok"))
    /\ pending' = IF ConnectResult("ok").fresh THEN <<>> ELSE pending
    /\ prev' = Prev
    /\ UNCHANGED <<rig, daemonVars>>

FaithfulDisconnect ==
    /\ ~panicked
    /\ DisconnectClient
    /\ pending' = <<>>
    /\ prev' = Prev
    /\ UNCHANGED <<rig, daemonVars>>

FaithfulGetFrequency ==
    /\ ~panicked
    /\ Served("get_frequency", <<>>, CmdGetFreq, LAMBDA r : GetFrequencyResult(r))

FaithfulSetFrequency ==
    /\ ~panicked
    /\ \E frequency \in Frequencies :
        Served("set_frequency", <<frequency>>, CmdSetFreq \o FormatUint(frequency),
               LAMBDA r : SetFrequencyResult(frequency, r))

FaithfulGetMode ==
    /\ ~panicked
    /\ Served("get_mode", <<>>, CmdGetMode, LAMBDA r : GetModeResult(r))

FaithfulSetMode ==
    /\ ~panicked
    /\ \E mode \in ArgModes, passband \in Passbands :
        Served("set_mode", <<mode, passband>>,
               CmdSetMode \o ModeDisplay(mode) \o Space \o FormatUint(passband),
               LAMBDA r : SetModeResult(mode, passband, r))

FaithfulNext ==
    \/ FaithfulConnect
    \/ FaithfulDisconnect
    \/ FaithfulGetFrequency
    \/ FaithfulSetFrequency
    \/ FaithfulGetMode
    \/ FaithfulSetMode

FaithfulSpec == Init /\ [][FaithfulNext]_vars

\* the last call read the answer to its own request: no line was unread when
\* it was made and its read did not time out
InStep == prev.pending = <<>> /\ last.reads = 1 /\ last.ev.k = "data"

\* the last call directly followed a successful call of op
FollowsOk(op) == prev.call.op = op /\ IsOk(prev.call.out)

----------------------------------------------------------------------------
(* Failures of the write step, and typed operations without a connection.  *)

\* the write of the last call failed
WriteFailed == TypedOnConnected /\ last.steps = <<"write">>

\* C21: when writing the request line fails, the command execution fails with
\* InternalError and attempts no read.
C21_WriteFailureIsInternalError ==
    WriteFailed => (IsErr(last.out, "InternalError") /\ last.reads = 0)

\* the last call was a typed operation on a client that held no connection
TypedOnDisconnected ==
    last.op \in TypedOps /\ last.pre.reader = None /\ last.pre.writer = None

\* C24: a typed operation on a Disconnected client writes nothing and returns
\* an error to the caller; it does not crash.
C24_DisconnectedOperationFails ==
    TypedOnDisconnected =>
        /\ last.wrote = <<>>
        /\ last.out.k = "Err"
        /\ ~panicked

----------------------------------------------------------------------------
(* Mode and its token.                                                     *)

Tokens == {ModeToken(m) : m \in Mode}

\* strings near the tokens that are not tokens: a token with a character
\* added in front or behind, with a blank, without its last character, with
\* its first letter in lower case, two tokens in a row, and the empty string
NearTokens ==
    UNION {{t \o <<"X">>, <<"X">> \o t, t \o <<" ">>, <<" ">> \o t, t \o <<"\n">>,
            SubSeq(t, 1, Len(t) - 1), <<"u">> \o Tail(t), t \o t} : t \in Tokens}
    \cup {<<>>, <<"u", "s", "b">>, <<"X", "Y", "Z">>, <<"0">>}

NonTokens == NearTokens \ Tokens

\* C22: parsing the token of a mode returns that mode, distinct modes have
\* distinct tokens, there are 20 modes, and parsing a string that is not one
\* of the 20 tokens fails with InternalError; get_mode returns the mode whose
\* token the response carries and fails with InternalError for another token.
C22_ModeTokenBijection ==
    /\ Cardinality(Mode) = 20
    /\ Cardinality(Tokens) = 20
    /\ \A m \in Mode : ModeDisplay(m) = ModeToken(m) /\ ModeFromStr(ModeDisplay(m)) = Ok(m)
    /\ \A m, n \in Mode : ModeDisplay(m) = ModeDisplay(n) => m = n
    /\ \A s \in NonTokens : IsErr(ModeFromStr(s), "InternalError")
    /\ (GotLine /\ last.op = "get_mode" /\ Shape("get_mode", Returned)) =>
          LET tok == ModeField(Returned, PreGetMode, MidGetMode) IN
          IF tok \in Tokens
          THEN IsOk(last.out) => ModeToken(last.out.v[1]) = tok
          ELSE IsErr(last.out, "InternalError")

\* get_mode was answered with a well-formed line whose token is no mode
C22_Witness ==
    /\ GotLine
    /\ last.op = "get_mode"
    /\ Shape("get_mode", Returned)
    /\ ModeField(Returned, PreGetMode, MidGetMode) = <<"X", "Y", "Z">>
    /\ IsErr(last.out, "InternalError")

----------------------------------------------------------------------------
(* The argument vector of a spawned daemon.                                *)

\* every combination of the three optional settings
AllDaemons ==
    {[DefaultDaemon EXCEPT !.rig_file = f, !.serial_speed = sp, !.civ_address = c] :
        f \in {None, RigFileDaemon.rig_file},
        sp \in {None, SerialSpeedDaemon.serial_speed},
        c \in {None, Ic7200Daemon.civ_address}}

\* flag and value of an optional setting, when it is configured
Optional(flag, setting) == IF setting = None THEN <<>> ELSE <<<<"-", flag>>, setting[1]>>

\* the argument vector the configuration d asks for
Expected(d) ==
    <<<<"-", "T">>, d.host, <<"-", "t">>, d.port, <<"-", "m">>, d.model>>
    \o Optional("r", d.rig_file)
    \o Optional("s", d.serial_speed)
    \o Optional("c", d.civ_address)

\* C23: spawn passes host, port and model with their flags, in that order,
\* then the device file, the serial speed and the bus address with their
\* flags, each if and only if it is configured, and nothing else.
C23_ArgumentVector ==
    /\ \A pid \in 1..Len(procs) : procs[pid].argv = Expected(procs[pid].cfg)
    /\ \A d \in AllDaemons :
          /\ Argv(d) = Expected(d)
          /\ Len(Argv(d)) = 6 + 2 * Cardinality({o \in {"rig_file", "serial_speed", "civ_address"} :
                                                    d[o] # None})

\* a daemon with only the serial speed configured runs beside a default one
C23_Witness ==
    /\ Len(procs) = 2
    /\ procs[1].cfg = DefaultDaemon
    /\ Len(procs[1].argv) = 6
    /\ procs[2].cfg = SerialSpeedDaemon
    /\ procs[2].argv[7] = <<"-", "s">>
    /\ Alive(2)

----------------------------------------------------------------------------
(* Whose answer a command returns.                                         *)

\* the read of the last call returned a line
LineReturned == TypedOnConnected /\ last.reads = 1 /\ last.ev.k = "data"

\* C25: on a Connected client the line a command execution returns is the
\* answer of the daemon to that same request: no answer to an earlier request
\* that arrived late is returned to a later command.
C25_ReturnsOwnResponse ==
    LineReturned => prev.pending = <<>>

----------------------------------------------------------------------------
(* The two halves of the connection.                                       *)

Disconnected == reader = None /\ writer = None

\* C26: in every reachable state the read half and the write half are both
\* held or both absent, before and after every call, so the test of connect
\* (both held) and the test of disconnect (both absent) are complements:
\* connect refuses exactly when disconnect would succeed.
C26_HalvesTogether ==
    /\ (reader = None) <=> (writer = None)
    /\ (last.pre.reader = None) <=> (last.pre.writer = None)
    /\ Connected <=> ~Disconnected
    /\ reader # None => reader = writer
    /\ last.op = "connect" => (last.attempt <=> ~WasConnected)
    /\ last.op = "disconnect" => (IsOk(last.out) <=> WasConnected)

\* a typed operation failed on the second connection, which is still held whole
C26_Witness ==
    /\ last.op = "get_powerstate"
    /\ last.out.k = "Err"
    /\ last.pre.reader = Some(2)
    /\ reader = Some(2)
    /\ writer = Some(2)

----------------------------------------------------------------------------
(* A response the operation rejects.                                       *)

\* the last typed operation read a line and rejected it with InternalError
Rejected == WasConnected /\ GotLine /\ IsErr(last.out, "InternalError")

\* C27: a typed operation that fails with InternalError on the line it read
\* (the line does not match the grammar, or the echoed value is not the one
\* requested) leaves the client Connected on the same connection with the
\* same timeout, able to run the next operation.
C27_RejectedLineKeepsState ==
    Rejected =>
        /\ Connected
        /\ reader = last.pre.reader
        /\ writer = last.pre.writer
        /\ timeout = last.pre.timeout
        /\ ~panicked

\* a well-formed echo of another frequency, rejected on a client whose
\* timeout was raised
C27_Witness ==
    /\ Rejected
    /\ last.op = "set_frequency"
    /\ Captures(RE_set_freq, last.ev.l).m
    /\ timeout = 1000
    /\ reader = Some(1)

====
